---- MODULE Spec2Model ----
(***************************************************************************)
(* Model of the alarm-to-notification relay in                             *)
(* monitoring_cdk/lambda/notify.py: lambda_handler drives                  *)
(* process_alarm_event for each record; process_alarm_event resolves the   *)
(* log group, extracts the datapoint timestamp, fetches logs, formats the  *)
(* e-mail and publishes it.  Python strings are TLA+ strings; the AWS      *)
(* services answer each call with a nondeterministically chosen response.  *)
(***************************************************************************)
EXTENDS Integers, Sequences, FiniteSets, TLC

\* Python's None (kept a string so that it compares with str values)
None == "<None>"

-----------------------------------------------------------------------------
(* Python str helpers *)

UpperLetters == "ABCDEFGHIJKLMNOPQRSTUVWXYZ"
LowerLetters == "abcdefghijklmnopqrstuvwxyz"
DigitChars == "0123456789"

CharAt(s, i) == SubSeq(s, i, i)

LowerChar(c) ==
    IF \E k \in 1..26 : CharAt(UpperLetters, k) = c
    THEN CharAt(LowerLetters, CHOOSE k \in 1..26 : CharAt(UpperLetters, k) = c)
    ELSE c

RECURSIVE StrLower(_)
StrLower(s) == IF s = "" THEN "" ELSE LowerChar(Head(s)) \o StrLower(Tail(s))

EndsWith(s, suf) ==
    /\ Len(s) >= Len(suf)
    /\ SubSeq(s, Len(s) - Len(suf) + 1, Len(s)) = suf

StartsWith(s, pre) ==
    /\ Len(s) >= Len(pre)
    /\ SubSeq(s, 1, Len(pre)) = pre

Contains(s, sub) ==
    \E i \in 1..(Len(s) - Len(sub) + 1) : SubSeq(s, i, i + Len(sub) - 1) = sub

\* s[:-n]
DropLast(s, n) == SubSeq(s, 1, Len(s) - n)

\* s[n:]
DropFirst(s, n) == SubSeq(s, n + 1, Len(s))

\* s[:n]
Prefix(s, n) == IF Len(s) <= n THEN s ELSE SubSeq(s, 1, n)

\* str.replace(old, new): every occurrence, left to right
RECURSIVE ReplaceAll(_, _, _)
ReplaceAll(s, old, new) ==
    IF s = "" THEN ""
    ELSE IF StartsWith(s, old)
         THEN new \o ReplaceAll(DropFirst(s, Len(old)), old, new)
         ELSE Head(s) \o ReplaceAll(Tail(s), old, new)

\* str.replace(old, new, 1): the first occurrence only
RECURSIVE ReplaceFirst(_, _, _)
ReplaceFirst(s, old, new) ==
    IF s = "" THEN ""
    ELSE IF StartsWith(s, old)
         THEN new \o DropFirst(s, Len(old))
         ELSE Head(s) \o ReplaceFirst(Tail(s), old, new)

IsDigit(c) == \E k \in 1..10 : CharAt(DigitChars, k) = c

DigitVal(c) == (CHOOSE k \in 1..10 : CharAt(DigitChars, k) = c) - 1

\* int() of a string of digits
RECURSIVE StrToInt(_)
StrToInt(s) ==
    IF s = "" THEN 0
    ELSE 10 * StrToInt(DropLast(s, 1)) + DigitVal(CharAt(s, Len(s)))

\* a number as exactly w digits, zero padded (strftime's %m, %d, %H, ...)
RECURSIVE IntToStr(_, _)
IntToStr(n, w) ==
    IF w = 0 THEN ""
    ELSE IntToStr(n \div 10, w - 1) \o CharAt(DigitChars, (n % 10) + 1)

\* Python truthiness of an Optional[str]
Truthy(s) == s # None /\ s # ""

-----------------------------------------------------------------------------
(* Source resolution helpers *)

severities == <<"-Error", "-Warning", "-Critical", "-Info", "-Debug", "-Alert">>

\* variant: the severity suffixes are compared as written
StripFirstSeverityExactCase(base) ==
    LET hits == {k \in 1..Len(severities) : EndsWith(base, severities[k])}
    IN  IF hits = {} THEN base
        ELSE LET k == CHOOSE j \in hits : \A h \in hits : j <= h
             IN  DropLast(base, Len(severities[k]))

\* the for loop over the severity suffixes: the first one that matches is
\* removed, then the loop breaks
StripFirstSeverity(base) ==
    LET hits == {k \in 1..Len(severities) :
                    EndsWith(StrLower(base), StrLower(severities[k]))}
    IN  IF hits = {} THEN base
        ELSE LET k == CHOOSE j \in hits : \A h \in hits : j <= h
             IN  DropLast(base, Len(severities[k]))

\* variant: only the "-Alarm" suffix is removed
infer_log_group_name_keeps_severity(alarm_name) ==
    IF EndsWith(alarm_name, "-Alarm")
    THEN DropLast(alarm_name, Len("-Alarm"))
    ELSE alarm_name

infer_log_group_name_from_alarm_name(alarm_name) ==
    LET base == IF EndsWith(alarm_name, "-Alarm")
                THEN DropLast(alarm_name, Len("-Alarm"))
                ELSE alarm_name
    IN  StripFirstSeverity(base)

\* variant: the alarm name is used as it is
InlineFallbackKeepsName(alarm_name) == alarm_name

\* the fallback written inline in process_alarm_event's except branch
InlineFallbackLogGroup(alarm_name) ==
    LET base == IF EndsWith(alarm_name, "-Alarm")
                THEN DropLast(alarm_name, Len("-Alarm"))
                ELSE alarm_name
        hits == {k \in 1..Len(severities) :
                    EndsWith(StrLower(base), StrLower(severities[k]))}
    IN  IF hits = {} THEN base
        ELSE DropLast(base, Len(severities[CHOOSE j \in hits : \A h \in hits : j <= h]))

\* result: [raised |-> BOOLEAN, value |-> str]
infer_log_group_name_from_metric(metric_name, namespace) ==
    IF namespace = "LS-AWSLAB-ErrorMonitoring"
    THEN [raised |-> FALSE,
          value |-> "LS-AWSLAB-" \o ReplaceAll(metric_name, "-Error", "")]
    ELSE IF namespace = "LS-AWSLAB-EC2-MTA01"
    THEN [raised |-> FALSE,
          value |-> IF Contains(StrLower(metric_name), "messages")
                    THEN "LS-AWSLAB-EC2-MTA01-Log-messages"
                    ELSE IF Contains(StrLower(metric_name), "app")
                    THEN "LS-AWSLAB-EC2-MTA01-Log-app"
                    ELSE "LS-AWSLAB-EC2-MTA01-Log-messages"]
    ELSE [raised |-> TRUE, value |-> None]

\* variant: the name is not lowered before the comparisons
infer_filter_pattern_exact_case(log_group_name) ==
    IF EndsWith(log_group_name, "-messages") THEN "[error]"
    ELSE IF EndsWith(log_group_name, "-app") THEN "ERROR"
    ELSE IF Contains(log_group_name, "log-messages") THEN "[error]"
    ELSE IF Contains(log_group_name, "log-app") THEN "ERROR"
    ELSE "ERROR"

infer_filter_pattern_from_log_group_name(log_group_name) ==
    LET log_group_lower == StrLower(log_group_name)
    IN  IF EndsWith(log_group_lower, "-messages") THEN "[error]"
        ELSE IF EndsWith(log_group_lower, "-app") THEN "ERROR"
        ELSE IF Contains(log_group_lower, "log-messages") THEN "[error]"
        ELSE IF Contains(log_group_lower, "log-app") THEN "ERROR"
        ELSE "ERROR"

generate_display_name(log_group_name) ==
    LET base == IF StartsWith(log_group_name, "LS-AWSLAB-")
                THEN ReplaceFirst(log_group_name, "LS-AWSLAB-", "")
                ELSE log_group_name
    IN  IF EndsWith(base, "-Log-messages")
        THEN ReplaceAll(base, "-Log-messages", "-Messages")
        ELSE IF EndsWith(base, "-Log-app")
        THEN ReplaceAll(base, "-Log-app", "-App")
        ELSE base

-----------------------------------------------------------------------------
(* Timestamp extraction and time arithmetic *)

\* the text between the parentheses: \d{2}/\d{2}/\d{2} \d{2}:\d{2}:\d{2}
StampShape(t) ==
    /\ Len(t) = 17
    /\ \A k \in 1..17 :
          IF k \in {3, 6} THEN CharAt(t, k) = "/"
          ELSE IF k = 9 THEN CharAt(t, k) = " "
          ELSE IF k \in {12, 15} THEN CharAt(t, k) = ":"
          ELSE IsDigit(CharAt(t, k))

\* pattern1 matches at position i of s
MatchAt(s, i) ==
    /\ i + 18 <= Len(s)
    /\ CharAt(s, i) = "("
    /\ CharAt(s, i + 18) = ")"
    /\ StampShape(SubSeq(s, i + 1, i + 17))

\* variant: group(1) of the rightmost match
SearchStampLast(s) ==
    LET at == {i \in 1..Len(s) : MatchAt(s, i)}
    IN  IF at = {} THEN None
        ELSE LET i == CHOOSE j \in at : \A h \in at : j >= h
             IN  SubSeq(s, i + 1, i + 17)

\* re.search(pattern1, s): group(1) of the leftmost match, or None
SearchStamp(s) ==
    LET at == {i \in 1..Len(s) : MatchAt(s, i)}
    IN  IF at = {} THEN None
        ELSE LET i == CHOOSE j \in at : \A h \in at : j <= h
             IN  SubSeq(s, i + 1, i + 17)

IsLeap(y) == (y % 4 = 0 /\ y % 100 # 0) \/ y % 400 = 0

DaysInMonth(y, m) ==
    IF m = 2 THEN (IF IsLeap(y) THEN 29 ELSE 28)
    ELSE IF m \in {4, 6, 9, 11} THEN 30 ELSE 31

\* datetime.strptime(text, "%Y/%m/%d %H:%M:%S") on "YYYY/MM/DD HH:MM:SS":
\* ValueError unless the fields form a calendar date and a time of day
strptime(text) ==
    LET Y == StrToInt(SubSeq(text, 1, 4))
        M == StrToInt(SubSeq(text, 6, 7))
        D == StrToInt(SubSeq(text, 9, 10))
        h == StrToInt(SubSeq(text, 12, 13))
        m == StrToInt(SubSeq(text, 15, 16))
        s == StrToInt(SubSeq(text, 18, 19))
        ok == /\ M \in 1..12
              /\ D >= 1
              /\ D <= DaysInMonth(Y, M)
              /\ h <= 23
              /\ m <= 59
              /\ s <= 59
    IN  [raised |-> ~ok, Y |-> Y, M |-> M, D |-> D, h |-> h, m |-> m, s |-> s]

\* dt.strftime("%Y-%m-%dT%H:%M:%S.000Z")
strftime_iso(dt) ==
    IntToStr(dt.Y, 4) \o "-" \o IntToStr(dt.M, 2) \o "-" \o IntToStr(dt.D, 2)
      \o "T" \o IntToStr(dt.h, 2) \o ":" \o IntToStr(dt.m, 2) \o ":"
      \o IntToStr(dt.s, 2) \o ".000Z"

\* variant: `int(year_part) < 50`
full_year_below_50(year_part) ==
    IF StrToInt(year_part) < 50 THEN "20" \o year_part ELSE "19" \o year_part

\* 00-50 is 20xx, 51-99 is 19xx
full_year(year_part) ==
    IF StrToInt(year_part) <= 50 THEN "20" \o year_part ELSE "19" \o year_part

extract_datapoint_timestamp_from_reason(state_reason) ==
    IF ~Truthy(state_reason) THEN None
    ELSE LET timestamp_str == SearchStamp(state_reason)
         IN  IF timestamp_str = None THEN None
             ELSE LET date_part == SubSeq(timestamp_str, 1, 8)
                      time_part == SubSeq(timestamp_str, 10, 17)
                      dd == SubSeq(date_part, 1, 2)
                      mm == SubSeq(date_part, 4, 5)
                      year_part == SubSeq(date_part, 7, 8)
                      corrected_timestamp ==
                          full_year(year_part) \o "/" \o mm \o "/" \o dd \o " " \o time_part
                      dt == strptime(corrected_timestamp)
                  IN  IF dt.raised THEN None ELSE strftime_iso(dt)

\* days between 1970-01-01 and the civil date y-m-d (proleptic Gregorian)
DaysFromCivil(y, m, d) ==
    LET yy == IF m <= 2 THEN y - 1 ELSE y
        era == yy \div 400
        yoe == yy - era * 400
        mp == IF m > 2 THEN m - 3 ELSE m + 9
        doy == (153 * mp + 2) \div 5 + d - 1
        doe == yoe * 365 + yoe \div 4 - yoe \div 100 + doy
    IN  era * 146097 + doe - 719468

\* Epoch milliseconds do not fit the checker's integers: an instant is the
\* pair of its whole days since 1970-01-01 and the milliseconds into that day,
\* standing for days * 86400000 + ms.
Instant(days, ms) == [days |-> days + (ms \div 86400000), ms |-> ms % 86400000]

AddMillis(t, delta) == Instant(t.days, t.ms + delta)

\* variant: the offset is dropped and the text read as Asia/Tokyo local time
IsoToLocalEpochMillis(ts) ==
    LET Y == StrToInt(SubSeq(ts, 1, 4))
        M == StrToInt(SubSeq(ts, 6, 7))
        D == StrToInt(SubSeq(ts, 9, 10))
        h == StrToInt(SubSeq(ts, 12, 13))
        m == StrToInt(SubSeq(ts, 15, 16))
        s == StrToInt(SubSeq(ts, 18, 19))
    IN  Instant(DaysFromCivil(Y, M, D), (((h - 9) * 60 + m) * 60 + s) * 1000)

\* int(datetime.fromisoformat(ts.replace('Z', '+00:00')).timestamp() * 1000):
\* the instant "YYYY-MM-DDTHH:MM:SS.000+00:00" as epoch milliseconds
IsoToEpochMillis(ts) ==
    LET iso == ReplaceAll(ts, "Z", "+00:00")
        Y == StrToInt(SubSeq(iso, 1, 4))
        M == StrToInt(SubSeq(iso, 6, 7))
        D == StrToInt(SubSeq(iso, 9, 10))
        h == StrToInt(SubSeq(iso, 12, 13))
        m == StrToInt(SubSeq(iso, 15, 16))
        s == StrToInt(SubSeq(iso, 18, 19))
        frac == StrToInt(SubSeq(iso, 21, 23))
    IN  Instant(DaysFromCivil(Y, M, D), ((h * 60 + m) * 60 + s) * 1000 + frac)

-----------------------------------------------------------------------------
(* Log retrieval helpers *)

period_seconds == 300
window_limit == 20
window_cap == 10
recent_limit == 10
hours_back == 1

\* events.sort(key=timestamp, reverse=True): stable, newest first
RECURSIVE InsertDesc(_, _)
InsertDesc(sorted, e) ==
    IF sorted = <<>> THEN <<e>>
    ELSE IF Head(sorted).timestamp >= e.timestamp
         THEN <<Head(sorted)>> \o InsertDesc(Tail(sorted), e)
         ELSE <<e>> \o sorted

RECURSIVE SortDesc(_)
SortDesc(events) ==
    IF events = <<>> THEN <<>>
    ELSE InsertDesc(SortDesc(SubSeq(events, 1, Len(events) - 1)),
                    events[Len(events)])

\* events[:n]
FirstN(events, n) == IF Len(events) <= n THEN events ELSE SubSeq(events, 1, n)

\* variant: the filter pattern is passed on as it is
WindowSearchPatternVerbatim(filter_pattern) == filter_pattern

\* the search pattern of get_logs_from_datapoint_period
WindowSearchPattern(filter_pattern) ==
    IF filter_pattern = "[error]" THEN "error" ELSE filter_pattern

\* the search pattern of get_recent_error_logs
RecentSearchPattern(filter_pattern) ==
    IF filter_pattern = "[error]" THEN "error" ELSE filter_pattern

\* what get_logs_from_datapoint_period returns for a backend response
WindowResult(response) ==
    IF response.raised THEN <<>>
    ELSE FirstN(SortDesc(response.events), window_cap)

\* what get_recent_error_logs returns for a backend response
RecentResult(response) ==
    IF response.raised THEN <<>> ELSE response.events

-----------------------------------------------------------------------------
(* Report formatting *)

AWS_REGION == "ap-northeast-1"

region_long == IF AWS_REGION = "ap-northeast-1" THEN "Asia Pacific (Tokyo)" ELSE AWS_REGION

listed_entries == 5
message_chars == 300

Min(a, b) == IF a <= b THEN a ELSE b

\* variant: the message is cut without the "..."
TruncateMessageNoEllipsis(message) == Prefix(message, message_chars)

\* message[:300] + "..." when the message is longer than 300 characters
TruncateMessage(message) ==
    IF Len(message) > message_chars
    THEN Prefix(message, message_chars) \o "..."
    ELSE message

\* variant: `if error_logs is not None`, an empty list is listed
LogBlockWithoutPlaceholder(error_logs, search_method) ==
    [sec |-> "logs", kind |-> "listed", method |-> search_method,
     count |-> Len(error_logs),
     entries |-> [k \in 1..Min(Len(error_logs), listed_entries) |->
                    [timestamp |-> error_logs[k].timestamp,
                     message |-> TruncateMessage(error_logs[k].message)]],
     omitted |-> IF Len(error_logs) > listed_entries
                 THEN Len(error_logs) - listed_entries ELSE 0]

\* body_extra: the block with the detected log lines.  log_time is kept as
\* the entry's epoch milliseconds.
LogBlock(error_logs, search_method) ==
    IF error_logs # <<>>
    THEN [sec |-> "logs", kind |-> "listed", method |-> search_method,
          count |-> Len(error_logs),
          entries |-> [k \in 1..Min(Len(error_logs), listed_entries) |->
                         [timestamp |-> error_logs[k].timestamp,
                          message |-> TruncateMessage(error_logs[k].message)]],
          omitted |-> IF Len(error_logs) > listed_entries
                      THEN Len(error_logs) - listed_entries ELSE 0]
    ELSE [sec |-> "logs", kind |-> "failed", method |-> search_method,
          count |-> 0, entries |-> <<>>, omitted |-> 0]

\* threshold_block / monitored_metric_block / state_change_actions_block for
\* a describe_alarms response [raised, MetricAlarms]
ThresholdBlock(resp) ==
    [sec |-> "threshold",
     text |-> IF ~resp.raised /\ resp.MetricAlarms # <<>> /\ resp.MetricAlarms[1].complete
              THEN "sentence" ELSE "generic"]

\* variant: without an alarm the block is left out
MonitoredMetricBlockOmitted(resp) ==
    [sec |-> "monitored",
     text |-> IF ~resp.raised /\ resp.MetricAlarms # <<>>
              THEN "from alarm" ELSE ""]

MonitoredMetricBlock(resp) ==
    [sec |-> "monitored",
     text |-> IF ~resp.raised /\ resp.MetricAlarms # <<>>
              THEN "from alarm" ELSE "(not available)"]

StateChangeActionsBlock(resp) ==
    [sec |-> "actions",
     text |-> IF ~resp.raised /\ resp.MetricAlarms # <<>>
              THEN "from alarm" ELSE "None"]

EmailSubject(alarm_name) == "ALARM: \"" \o alarm_name \o "\" in " \o region_long

\* body = header + body_extra + alarm_console_link + details + threshold_block
\*        + monitored_metric_block + state_change_actions_block + caution_block
EmailBody(alarm_name, reason, new_state, error_logs, search_method, account_id, resp) ==
    << [sec |-> "summary", alarm |-> alarm_name, reason |-> reason],
       LogBlock(error_logs, search_method),
       [sec |-> "link", alarm |-> alarm_name, region |-> AWS_REGION],
       [sec |-> "details", alarm |-> alarm_name, new_state |-> new_state,
        account |-> account_id, region |-> AWS_REGION],
       ThresholdBlock(resp),
       MonitoredMetricBlock(resp),
       StateChangeActionsBlock(resp),
       [sec |-> "caution"] >>

-----------------------------------------------------------------------------
(* Filter selection *)

\* filter_info.get('filterPattern', '')
FilterPatternOf(filter_info) ==
    IF filter_info.filterPattern = None THEN "" ELSE filter_info.filterPattern

\* variant: the loops run to their end, the last matching filter is kept
get_filter_pattern_last_match(resp, log_group_name, metric_name) ==
    IF resp.raised THEN infer_filter_pattern_from_log_group_name(log_group_name)
    ELSE IF resp.metricFilters = <<>>
    THEN infer_filter_pattern_from_log_group_name(log_group_name)
    ELSE LET hits == {k \in 1..Len(resp.metricFilters) :
                        \E t \in 1..Len(resp.metricFilters[k].metricTransformations) :
                           resp.metricFilters[k].metricTransformations[t] = metric_name}
         IN  IF hits # {}
             THEN FilterPatternOf(resp.metricFilters[CHOOSE j \in hits : \A h \in hits : j >= h])
             ELSE FilterPatternOf(resp.metricFilters[1])

\* get_filter_pattern_from_log_group for a describe_metric_filters response
\* [raised, metricFilters]
get_filter_pattern_from_log_group(resp, log_group_name, metric_name) ==
    IF resp.raised THEN infer_filter_pattern_from_log_group_name(log_group_name)
    ELSE IF resp.metricFilters = <<>>
    THEN infer_filter_pattern_from_log_group_name(log_group_name)
    ELSE LET hits == {k \in 1..Len(resp.metricFilters) :
                        \E t \in 1..Len(resp.metricFilters[k].metricTransformations) :
                           resp.metricFilters[k].metricTransformations[t] = metric_name}
         IN  IF hits # {}
             THEN FilterPatternOf(resp.metricFilters[CHOOSE j \in hits : \A h \in hits : j <= h])
             ELSE FilterPatternOf(resp.metricFilters[1])

-----------------------------------------------------------------------------
(* Inputs: environment, inbound events, service responses *)

MaxRecords == 2
MaxFilters == 2
MaxEvents == 2
MaxTimestamp == 2

TopicArn == "arn:aws:sns:ap-northeast-1:123456789012:LS-AWSLAB-ErrorNotificationEmail"

\* EMAIL_SNS_TOPIC_ARN: unset, empty or set
Envs == {None, "", TopicArn}

StampedReason ==
    "Threshold Crossed: 1 datapoint [2.0 (04/08/25 05:16:00)] was greater than the threshold"
PlainReason == "Threshold Crossed"

NoTrigger == [Namespace |-> None, MetricName |-> None]
SomeTrigger == [Namespace |-> "NS", MetricName |-> "M"]

AlarmNames == {"LS-AWSLAB-EC2-MTA01-Messages-Error-Alarm", "LG-Error-Alarm", "-Alarm"}
StateValues == {"ALARM", "OK", "alarm", None}
Reasons == {StampedReason, PlainReason, None}

\* an alarm payload; shape says which keys it has ('AlarmName', 'alarmData'
\* or neither), None is a missing key
Message(shape, name, state, reason, trigger) ==
    [shape |-> shape, AlarmName |-> name, NewStateValue |-> state,
     NewStateReason |-> reason, Trigger |-> trigger]

UnknownMessage == Message("unknown", None, None, None, NoTrigger)

Messages ==
    {Message(sh, n, st, r, t) :
        sh \in {"AlarmName", "alarmData"}, n \in AlarmNames, st \in StateValues,
        r \in Reasons, t \in {SomeTrigger}}
    \cup {Message("AlarmName", "LG-Error-Alarm", "ALARM", StampedReason, NoTrigger)}
    \cup {UnknownMessage}

\* a record of the wrapped envelope; parses is whether record['Sns']['Message']
\* is there and is JSON
Record(source, parses, message) ==
    [EventSource |-> source, parses |-> parses, Message |-> message]

RecordCatalogue ==
    { Record("aws:sns", TRUE,
             Message("AlarmName", "LG-Error-Alarm", "ALARM", StampedReason, SomeTrigger)),
      Record("aws:sns", TRUE,
             Message("AlarmName", "LG-Error-Alarm", "OK", PlainReason, SomeTrigger)),
      Record("aws:sns", TRUE, UnknownMessage),
      Record("aws:sns", FALSE, UnknownMessage),
      Record("aws:s3", TRUE, UnknownMessage) }

SeqsUpTo(S, n) == UNION {[1..k -> S] : k \in 0..n}

Events ==
    {[kind |-> "direct", data |-> m, Records |-> <<>>] : m \in Messages}
    \cup {[kind |-> "wrapped", data |-> UnknownMessage, Records |-> rs] :
            rs \in SeqsUpTo(RecordCatalogue, MaxRecords)}

\* cloudwatch.describe_alarms in get_log_group_info_from_alarm
AlarmMetrics == {[MetricName |-> "M", Namespace |-> "NS"],
                 [MetricName |-> "EC2-MTA01-App-Error",
                  Namespace |-> "LS-AWSLAB-ErrorMonitoring"]}

DescribeAlarmsResponses ==
    {[raised |-> TRUE, MetricAlarms |-> <<>>], [raised |-> FALSE, MetricAlarms |-> <<>>]}
    \cup {[raised |-> FALSE, MetricAlarms |-> <<a>>] : a \in AlarmMetrics}

\* logs.describe_log_groups(logGroupNamePrefix=name, limit=1)
DescribeLogGroupsResponses(name) ==
    {[raised |-> TRUE, logGroups |-> <<>>], [raised |-> FALSE, logGroups |-> <<>>],
     [raised |-> FALSE, logGroups |-> <<name>>],
     [raised |-> FALSE, logGroups |-> <<name \o "-old">>]}

\* logs.describe_metric_filters(logGroupName=name)
FilterPatterns == {"ERROR", "[error]", None}

MetricFilters(metric_name) ==
    {[filterPattern |-> fp, metricTransformations |-> ts] :
        fp \in FilterPatterns, ts \in {<<>>, <<metric_name>>, <<"Other", metric_name>>}}

DescribeMetricFiltersResponses(metric_name) ==
    {[raised |-> TRUE, metricFilters |-> <<>>]}
    \cup {[raised |-> FALSE, metricFilters |-> fs] :
            fs \in SeqsUpTo(MetricFilters(metric_name), MaxFilters)}

\* logs.filter_log_events(..., limit=limit): at most limit events, any order
LogEvent(ts) == [timestamp |-> ts, message |-> "ERROR boom"]

LongResult(n) == [k \in 1..n |-> LogEvent(((k - 1) % MaxTimestamp) + 1)]

LogResults ==
    SeqsUpTo({LogEvent(ts) : ts \in 1..MaxTimestamp}, MaxEvents)
    \cup {LongResult(window_cap), LongResult(window_cap + 1)}

FilterLogEventsResponses(limit) ==
    {[raised |-> TRUE, events |-> <<>>]}
    \cup {[raised |-> FALSE, events |-> es] : es \in {r \in LogResults : Len(r) <= limit}}

\* datetime.now() as epoch milliseconds
Nows == {Instant(20304, 19260123)}

\* sts.get_caller_identity() and cloudwatch.describe_alarms in generate_email_content
StsResponses == {[raised |-> TRUE, Account |-> None],
                 [raised |-> FALSE, Account |-> "123456789012"]}

AlarmDetailResponses ==
    {[raised |-> TRUE, MetricAlarms |-> <<>>], [raised |-> FALSE, MetricAlarms |-> <<>>]}
    \cup {[raised |-> FALSE, MetricAlarms |-> <<[complete |-> c]>>] : c \in BOOLEAN}

\* sns.publish
PublishResponses == {[raised |-> TRUE, MessageId |-> None],
                     [raised |-> FALSE, MessageId |-> "mid"]}

-----------------------------------------------------------------------------
(* State *)

VARIABLES
    env,            \* os.environ['EMAIL_SNS_TOPIC_ARN']
    event,          \* the event lambda_handler was invoked with
    pc,             \* where the invocation is
    i,              \* index of the record being processed (0: direct event)
    alarm_data,     \* argument of the running process_alarm_event
    frame,          \* locals of the running process_alarm_event
    calls,          \* the service calls issued so far, in order
    result,         \* what lambda_handler returned
    resolveFailed,  \* records whose get_log_group_info_from_alarm raised
    escaped,        \* where an exception reached lambda_handler's except
    unit            \* a helper function applied on its own: name, arguments, value

vars == <<env, event, pc, i, alarm_data, frame, calls, result, resolveFailed, escaped, unit>>

NoFrame ==
    [alarm_name |-> None, new_state |-> None, reason |-> None,
     metric_name |-> None, namespace |-> None,
     log_group_name |-> None, filter_pattern |-> None, display_name |-> None,
     datapoint_timestamp |-> None, error_logs |-> <<>>, search_method |-> None,
     account_id |-> None, resp |-> None, subject |-> None, body |-> <<>>]

NoResult == [statusCode |-> 0, message |-> None]

\* no helper function is applied on its own during an invocation
NoUnit == [fn |-> "none", args |-> <<>>, returned |-> FALSE, value |-> None]

Init ==
    /\ env \in Envs
    /\ event \in Events
    /\ pc = "start"
    /\ i = 0
    /\ alarm_data = UnknownMessage
    /\ frame = NoFrame
    /\ calls = <<>>
    /\ result = NoResult
    /\ resolveFailed = {}
    /\ escaped = "none"
    /\ unit = NoUnit

-----------------------------------------------------------------------------
(* lambda_handler and process_alarm_event, one action per step between two   *)
(* service calls                                                             *)

Get(value, default) == IF value = None THEN default ELSE value

\* an entry of calls: a metadata lookup (its outcome is not kept), or a log
\* query or publish call with whether it raised
Lookup(op, args) == [op |-> op, idx |-> i, args |-> args]

Call(op, raised, args) == [op |-> op, idx |-> i, raised |-> raised, args |-> args]

\* variant: `if email_sns_topic_arn is None`
handler_env_is_none(email_sns_topic_arn) == email_sns_topic_arn = None

\* `if not email_sns_topic_arn` in lambda_handler
handler_env_missing(email_sns_topic_arn) == ~Truthy(email_sns_topic_arn)

\* `if not email_sns_topic_arn` in process_alarm_event
event_env_missing(email_sns_topic_arn) == ~Truthy(email_sns_topic_arn)

\* variant: the final else branch is missing
event_format_unchecked(data) == TRUE

\* 'AlarmName' in alarm_data, or 'alarmData' in alarm_data
event_format_known(data) == data.shape \in {"AlarmName", "alarmData"}

\* variant: the state is compared in lower case
IsAlarmStateAnyCase(new_state) == StrLower(new_state) = "alarm"

\* `if new_state == 'ALARM'`
IsAlarmState(new_state) == new_state = "ALARM"

\* variant: the except branch of send_notification does not re-raise
send_notification_swallows(resp) == FALSE

\* send_notification raises when sns.publish raises
send_notification(resp) == resp.raised

\* variant: the try/except is inside the loop, a failing record is skipped
RaiseAndContinue(where, text) ==
    /\ frame' = NoFrame
    /\ escaped' = where
    /\ IF event.kind = "wrapped" /\ i >= 1 /\ i < Len(event.Records)
       THEN /\ pc' = "loop"
            /\ i' = i + 1
            /\ result' = result
       ELSE /\ pc' = "done"
            /\ i' = i
            /\ result' = [statusCode |-> 500, message |-> "Error: " \o text]

\* an exception reaches lambda_handler's except branch: the handler returns
\* status 500
Raise(where, text) ==
    /\ pc' = "done"
    /\ result' = [statusCode |-> 500, message |-> "Error: " \o text]
    /\ escaped' = where
    /\ frame' = NoFrame
    /\ i' = i

\* process_alarm_event returns: next record of the loop, or the end of the try
\* block
EndEvent ==
    /\ frame' = NoFrame
    /\ IF event.kind = "wrapped" /\ i < Len(event.Records)
       THEN pc' = "loop" /\ i' = i + 1
       ELSE pc' = "return" /\ i' = i

\* lambda_handler up to the loop or the direct call
CheckEnvironment ==
    /\ pc = "start"
    /\ IF handler_env_missing(env)
       THEN /\ Raise("config", "EMAIL_SNS_TOPIC_ARN environment variable not set")
            /\ UNCHANGED alarm_data
       ELSE /\ IF event.kind = "wrapped"
               THEN /\ i' = IF event.Records = <<>> THEN 0 ELSE 1
                    /\ pc' = IF event.Records = <<>> THEN "return" ELSE "loop"
                    /\ alarm_data' = alarm_data
               ELSE /\ i' = 0
                    /\ pc' = "process"
                    /\ alarm_data' = event.data
            /\ UNCHANGED <<result, escaped, frame>>
    /\ UNCHANGED <<unit, env, event, calls, resolveFailed>>

\* one iteration of the loop over event['Records'] up to the call of
\* process_alarm_event
NextRecord ==
    /\ pc = "loop"
    /\ LET record == event.Records[i]
       IN  IF record.EventSource = "aws:sns"
           THEN IF record.parses
                THEN /\ alarm_data' = record.Message
                     /\ pc' = "process"
                     /\ UNCHANGED <<i, result, escaped, frame>>
                ELSE /\ Raise("unwrap", "record['Sns']['Message'] is not JSON")
                     /\ UNCHANGED alarm_data
           ELSE /\ IF i < Len(event.Records)
                   THEN pc' = "loop" /\ i' = i + 1
                   ELSE pc' = "return" /\ i' = i
                /\ UNCHANGED <<alarm_data, result, escaped, frame>>
    /\ UNCHANGED <<unit, env, event, calls, resolveFailed>>

\* process_alarm_event up to the state test
ProcessAlarmEvent ==
    /\ pc = "process"
    /\ IF event_env_missing(env)
       THEN Raise("event", "EMAIL_SNS_TOPIC_ARN environment variable not set")
       ELSE IF ~event_format_known(alarm_data)
       THEN Raise("event", "Unknown alarm event format")
       ELSE LET alarm_name == Get(alarm_data.AlarmName, "Unknown")
                new_state == Get(alarm_data.NewStateValue, "UNKNOWN")
                reason == Get(alarm_data.NewStateReason, "")
            IN  IF IsAlarmState(new_state)
                THEN /\ frame' = [NoFrame EXCEPT !.alarm_name = alarm_name,
                                                 !.new_state = new_state,
                                                 !.reason = reason]
                     /\ pc' = "describe_alarms"
                     /\ UNCHANGED <<i, result, escaped>>
                ELSE /\ EndEvent
                     /\ UNCHANGED <<result, escaped>>
    /\ UNCHANGED <<unit, env, event, alarm_data, calls, resolveFailed>>

\* lines 137-139: the datapoint timestamp, then on to the log query
ToFetch(fr) ==
    /\ frame' = [fr EXCEPT !.datapoint_timestamp =
                              extract_datapoint_timestamp_from_reason(fr.reason)]
    /\ pc' = "fetch"

\* the except branch of process_alarm_event: the configuration is inferred
\* from the alarm name and processing goes on
FallbackConfig ==
    LET log_group_name == InlineFallbackLogGroup(frame.alarm_name)
    IN  /\ ToFetch([frame EXCEPT
                      !.log_group_name = log_group_name,
                      !.filter_pattern = infer_filter_pattern_from_log_group_name(log_group_name),
                      !.display_name = generate_display_name(log_group_name)])
        /\ resolveFailed' = resolveFailed \cup {i}

\* get_log_group_info_from_alarm, steps 1 and 2
DescribeAlarms ==
    /\ pc = "describe_alarms"
    /\ \E resp \in DescribeAlarmsResponses :
          /\ calls' = Append(calls, Lookup("describe_alarms",
                                            [AlarmNames |-> frame.alarm_name]))
          /\ IF resp.raised \/ resp.MetricAlarms = <<>>
             THEN FallbackConfig
             ELSE LET alarm == resp.MetricAlarms[1]
                      from_name == infer_log_group_name_from_alarm_name(frame.alarm_name)
                      from_metric == infer_log_group_name_from_metric(alarm.MetricName,
                                                                      alarm.Namespace)
                  IN  IF from_name = "" /\ from_metric.raised
                      THEN FallbackConfig
                      ELSE /\ frame' = [frame EXCEPT
                                          !.metric_name = alarm.MetricName,
                                          !.namespace = alarm.Namespace,
                                          !.log_group_name = IF from_name = ""
                                                             THEN from_metric.value
                                                             ELSE from_name]
                           /\ pc' = "describe_log_groups"
                           /\ UNCHANGED resolveFailed
    /\ UNCHANGED <<unit, env, event, i, alarm_data, result, escaped>>

\* get_log_group_info_from_alarm, step 3: verify_log_group_exists
DescribeLogGroups ==
    /\ pc = "describe_log_groups"
    /\ \E resp \in DescribeLogGroupsResponses(frame.log_group_name) :
          /\ calls' = Append(calls, Lookup("describe_log_groups",
                                            [logGroupNamePrefix |-> frame.log_group_name]))
          /\ IF \/ resp.raised
                \/ resp.logGroups = <<>>
                \/ resp.logGroups[1] # frame.log_group_name
             THEN FallbackConfig
             ELSE /\ pc' = "describe_metric_filters"
                  /\ UNCHANGED <<frame, resolveFailed>>
    /\ UNCHANGED <<unit, env, event, i, alarm_data, result, escaped>>

\* get_log_group_info_from_alarm, steps 4 and 5, and its return
DescribeMetricFilters ==
    /\ pc = "describe_metric_filters"
    /\ \E resp \in DescribeMetricFiltersResponses(frame.metric_name) :
          /\ calls' = Append(calls, Lookup("describe_metric_filters",
                                            [logGroupName |-> frame.log_group_name]))
          /\ ToFetch([frame EXCEPT
                        !.filter_pattern =
                            get_filter_pattern_from_log_group(resp, frame.log_group_name,
                                                              frame.metric_name),
                        !.display_name = generate_display_name(frame.log_group_name)])
    /\ UNCHANGED <<unit, env, event, i, alarm_data, result, resolveFailed, escaped>>

\* get_logs_from_datapoint_period
FetchWindow ==
    /\ pc = "fetch"
    /\ Truthy(frame.datapoint_timestamp)
    /\ \E resp \in FilterLogEventsResponses(window_limit) :
          LET start_time == IsoToEpochMillis(frame.datapoint_timestamp)
              end_time == AddMillis(start_time, period_seconds * 1000)
          IN  /\ calls' = Append(calls, Call("filter_log_events", resp.raised,
                            [logGroupName |-> frame.log_group_name,
                             startTime |-> start_time,
                             endTime |-> end_time,
                             filterPattern |-> WindowSearchPattern(frame.filter_pattern),
                             limit |-> window_limit]))
              /\ frame' = [frame EXCEPT !.error_logs = WindowResult(resp),
                                        !.search_method = "datapoint_period"]
    /\ pc' = "format"
    /\ UNCHANGED <<unit, env, event, i, alarm_data, result, resolveFailed, escaped>>

\* get_recent_error_logs
FetchRecent ==
    /\ pc = "fetch"
    /\ ~Truthy(frame.datapoint_timestamp)
    /\ \E now \in Nows, resp \in FilterLogEventsResponses(recent_limit) :
          LET end_time == now
              start_time == AddMillis(end_time, 0 - hours_back * 3600 * 1000)
          IN  /\ calls' = Append(calls, Call("filter_log_events", resp.raised,
                            [logGroupName |-> frame.log_group_name,
                             startTime |-> start_time,
                             endTime |-> end_time,
                             filterPattern |-> RecentSearchPattern(frame.filter_pattern),
                             limit |-> recent_limit]))
              /\ frame' = [frame EXCEPT !.error_logs = RecentResult(resp),
                                        !.search_method = "fallback"]
    /\ pc' = "format"
    /\ UNCHANGED <<unit, env, event, i, alarm_data, result, resolveFailed, escaped>>

\* generate_email_content
GenerateEmailContent ==
    /\ pc = "format"
    /\ \E sts \in StsResponses, resp \in AlarmDetailResponses :
          /\ calls' = calls \o
                 << Lookup("get_caller_identity", [Account |-> "self"]),
                    Lookup("describe_alarms", [AlarmNames |-> frame.alarm_name]) >>
          /\ LET account_id == IF sts.raised THEN "unknown" ELSE sts.Account
             IN  frame' = [frame EXCEPT
                             !.account_id = account_id,
                             !.resp = resp,
                             !.subject = EmailSubject(frame.alarm_name),
                             !.body = EmailBody(frame.alarm_name, frame.reason,
                                                frame.new_state, frame.error_logs,
                                                frame.search_method, account_id, resp)]
    /\ pc' = "send"
    /\ UNCHANGED <<unit, env, event, i, alarm_data, result, resolveFailed, escaped>>

\* send_notification, then the return of process_alarm_event.  The call
\* keeps the kind of the body's log block, not the whole Message.
SendNotification ==
    /\ pc = "send"
    /\ \E resp \in PublishResponses :
          /\ calls' = Append(calls, Call("publish", resp.raised,
                                         [TopicArn |-> env, Subject |-> frame.subject,
                                          logs |-> frame.body[2].kind]))
          /\ IF send_notification(resp)
             THEN Raise("event", "publish failed")
             ELSE /\ EndEvent
                  /\ UNCHANGED <<result, escaped>>
    /\ UNCHANGED <<unit, env, event, alarm_data, resolveFailed>>

\* the end of lambda_handler's try block
ReturnSuccess ==
    /\ pc = "return"
    /\ pc' = "done"
    /\ result' = [statusCode |-> 200, message |-> "Error notification processed successfully"]
    /\ UNCHANGED <<unit, env, event, i, alarm_data, frame, calls, resolveFailed, escaped>>

Next ==
    \/ CheckEnvironment
    \/ NextRecord
    \/ ProcessAlarmEvent
    \/ DescribeAlarms
    \/ DescribeLogGroups
    \/ DescribeMetricFilters
    \/ FetchWindow
    \/ FetchRecent
    \/ GenerateEmailContent
    \/ SendNotification
    \/ ReturnSuccess

Spec == Init /\ [][Next]_vars

-----------------------------------------------------------------------------
(* The helper functions applied on their own: the arguments are drawn from   *)
(* the sets below, one action per function computes its value                *)

\* the text inside a parenthesized group of a reason, with the fields it was
\* written from and whether they are a calendar date and a time of day
Group(dd, mm, yy, time, valid) ==
    [dd |-> dd, mm |-> mm, yy |-> yy, time |-> time, valid |-> valid,
     text |-> dd \o "/" \o mm \o "/" \o yy \o " " \o time]

\* <<day, month>> that exist in every year, only in leap years, in no year
AnyYearDates == {<<"01", "01">>, <<"04", "08">>, <<"31", "12">>, <<"30", "04">>, <<"28", "02">>}
LeapDates == {<<"29", "02">>}
NoYearDates == {<<"31", "04">>, <<"30", "02">>, <<"00", "01">>, <<"32", "01">>,
                <<"01", "13">>, <<"01", "00">>}

YearFields == {"00", "24", "25", "50", "51", "96", "99"}
LeapYearFields == {"00", "24", "96"}

DayTimes == {"00:00:00", "05:16:00", "23:59:59"}
NoDayTimes == {"24:00:00", "12:60:00", "12:00:60"}

ValidGroups ==
    {Group(d[1], d[2], yy, t, TRUE) : d \in AnyYearDates, yy \in YearFields, t \in DayTimes}
    \cup {Group(d[1], d[2], yy, t, TRUE) : d \in LeapDates, yy \in LeapYearFields, t \in DayTimes}

InvalidGroups ==
    {Group(d[1], d[2], yy, t, FALSE) : d \in NoYearDates, yy \in YearFields, t \in DayTimes}
    \cup {Group(d[1], d[2], yy, t, FALSE) :
            d \in LeapDates, yy \in YearFields \ LeapYearFields, t \in DayTimes}
    \cup {Group("04", "08", "25", t, FALSE) : t \in NoDayTimes}

\* NewStateReason texts as CloudWatch writes them, with one or two datapoints
OneDatapointReason(g) ==
    "Threshold Crossed: 1 datapoint [2.0 (" \o g.text \o ")] was greater than the threshold (1.0)."

TwoDatapointsReason(g, h) ==
    "Threshold Crossed: 2 datapoints [2.0 (" \o g.text \o "), 3.0 (" \o h.text
        \o ")] were greater than the threshold (1.0)."

\* texts in which pattern1 finds nothing
UnstampedReasons ==
    {None, "", PlainReason,
     "Threshold Crossed: 1 datapoint [2.0 (04/08/2025 05:16:00)] was greater",
     "Threshold Crossed: 1 datapoint [2.0 04/08/25 05:16:00] was greater",
     "Threshold Crossed: 1 datapoint [2.0 (4/8/25 5:16:00)] was greater",
     "Threshold Crossed: 1 datapoint [2.0 (04-08-25 05:16:00)] was greater",
     "Threshold Crossed: 1 datapoint [2.0 (04/08/25T05:16:00)] was greater",
     "no data (missing)"}

ReasonArgs ==
    {[state_reason |-> OneDatapointReason(g), groups |-> <<g>>] :
        g \in ValidGroups \cup InvalidGroups}
    \cup {[state_reason |-> TwoDatapointsReason(g, h), groups |-> <<g, h>>] :
            g \in {Group("01", "13", "25", "05:16:00", FALSE),
                   Group("29", "02", "25", "05:16:00", FALSE),
                   Group("04", "08", "25", "24:00:00", FALSE),
                   Group("04", "08", "25", "05:16:00", TRUE)},
            h \in {Group("04", "08", "25", "05:11:00", TRUE),
                   Group("01", "13", "51", "05:11:00", FALSE)}}
    \cup {[state_reason |-> r, groups |-> <<>>] : r \in UnstampedReasons}

\* alarm names written as <stem><severity part><alarm part>
NameStems == {"", "Foo", "LS-AWSLAB-EC2-MTA01-Messages", "LS-AWSLAB-EC2-MTA01-Log-app"}
SeverityParts == {"", "-Error", "-error", "-ERROR", "-Warning", "-Critical", "-Info",
                  "-Debug", "-Alert", "-aLeRt", "-Fatal", "-Info-Error", "Error"}
AlarmParts == {"", "-Alarm", "-alarm", "-ALARM", "-Alarms", "Alarm"}

NameArgs ==
    {[alarm_name |-> st \o sv \o al, stem |-> st, severity |-> sv, alarm |-> al] :
        st \in NameStems, sv \in SeverityParts, al \in AlarmParts}

\* log group names written as <stem><suffix>
GroupStems == {"", "X", "LS-AWSLAB-EC2-MTA01", "LS-AWSLAB-EC2-MTA01-Log-messages-old",
               "LOG-MESSAGES-2024", "Log-app-old", "Messages-x"}
GroupSuffixes == {"", "-messages", "-Messages", "-MESSAGES", "-app", "-App", "-APP",
                  "-web", "-messages-1", "-application", "messages"}

GroupArgs ==
    {[log_group_name |-> st \o sf, stem |-> st, suffix |-> sf] :
        st \in GroupStems, sf \in GroupSuffixes}

\* arguments of get_filter_pattern_from_log_group: the response of
\* describe_metric_filters, the log group and the alarm's metric
SelectionArgs ==
    {[resp |-> r, log_group_name |-> g, metric_name |-> "M"] :
        r \in DescribeMetricFiltersResponses("M"),
        g \in {"LS-AWSLAB-EC2-MTA01-Messages", "LG"}}

RECURSIVE Repeat(_, _)
Repeat(s, n) == IF n = 0 THEN "" ELSE s \o Repeat(s, n - 1)

\* log messages of 10, 300, 301 and 330 characters
ShortMessage == "ERROR boom"
FullMessage == Repeat("ERROR 789_", 30)
OverMessage == FullMessage \o "!"
LongMessage == FullMessage \o Repeat("tail 6789_", 3)

\* how the messages of a fetched list are chosen, by position
MessageAt(mix, k) ==
    CASE mix = "short" -> ShortMessage
      [] mix = "full" -> FullMessage
      [] mix = "over" -> OverMessage
      [] mix = "mixed" -> IF k % 2 = 1 THEN LongMessage ELSE ShortMessage

\* fetched lists of every length the two fetchers can return
MaxFetched == window_cap + 1

FetchedLists ==
    {[k \in 1..n |-> [timestamp |-> MaxFetched - k, message |-> MessageAt(mix, k)]] :
        n \in 0..MaxFetched, mix \in {"short", "full", "over", "mixed"}}

ListingArgs ==
    {[error_logs |-> l, search_method |-> m] :
        l \in FetchedLists, m \in {"datapoint_period", "fallback"}}

\* filter patterns as a metric filter may hold them
SearchedPatterns ==
    {"ERROR", "error", "[error]", "[ERROR]", "[Error]", "", "\"[error]\"", "'[error]'",
     "\"ERROR\"", "'timeout'", " ERROR ", " [error] ", "\" [error] \"", "?ERROR ?error",
     "\"", "[error"}

PatternArgs == {[filter_pattern |-> fp] : fp \in SearchedPatterns}

Applied(fn, args) == [fn |-> fn, args |-> args, returned |-> FALSE, value |-> None]

UnitInit ==
    /\ env = TopicArn
    /\ event = [kind |-> "direct", data |-> UnknownMessage, Records |-> <<>>]
    /\ pc = "unit"
    /\ i = 0
    /\ alarm_data = UnknownMessage
    /\ frame = NoFrame
    /\ calls = <<>>
    /\ result = NoResult
    /\ resolveFailed = {}
    /\ escaped = "none"
    /\ unit \in {Applied("extract_datapoint_timestamp_from_reason", a) : a \in ReasonArgs}
           \cup {Applied("infer_log_group_name_from_alarm_name", a) : a \in NameArgs}
           \cup {Applied("inline_fallback", a) : a \in NameArgs}
           \cup {Applied("infer_filter_pattern_from_log_group_name", a) : a \in GroupArgs}
           \cup {Applied("get_filter_pattern_from_log_group", a) : a \in SelectionArgs}
           \cup {Applied("body_extra", a) : a \in ListingArgs}
           \cup {Applied("get_logs_from_datapoint_period", a) : a \in PatternArgs}
           \cup {Applied("get_recent_error_logs", a) : a \in PatternArgs}

\* the function applied returns value
Returns(fn, value) ==
    /\ unit.fn = fn
    /\ ~unit.returned
    /\ unit' = [unit EXCEPT !.returned = TRUE, !.value = value]
    /\ UNCHANGED <<env, event, pc, i, alarm_data, frame, calls, result, resolveFailed, escaped>>

ExtractDatapointTimestamp ==
    /\ pc = "unit"
    /\ Returns("extract_datapoint_timestamp_from_reason",
               extract_datapoint_timestamp_from_reason(unit.args.state_reason))

InferLogGroupName ==
    /\ pc = "unit"
    /\ Returns("infer_log_group_name_from_alarm_name",
               infer_log_group_name_from_alarm_name(unit.args.alarm_name))

InlineFallback ==
    /\ pc = "unit"
    /\ Returns("inline_fallback", InlineFallbackLogGroup(unit.args.alarm_name))

InferFilterPattern ==
    /\ pc = "unit"
    /\ Returns("infer_filter_pattern_from_log_group_name",
               infer_filter_pattern_from_log_group_name(unit.args.log_group_name))

GetFilterPattern ==
    /\ pc = "unit"
    /\ Returns("get_filter_pattern_from_log_group",
               get_filter_pattern_from_log_group(unit.args.resp, unit.args.log_group_name,
                                                 unit.args.metric_name))

BodyExtra ==
    /\ pc = "unit"
    /\ Returns("body_extra", LogBlock(unit.args.error_logs, unit.args.search_method))

\* the search pattern get_logs_from_datapoint_period passes to filter_log_events
WindowPattern ==
    /\ pc = "unit"
    /\ Returns("get_logs_from_datapoint_period", WindowSearchPattern(unit.args.filter_pattern))

\* the search pattern get_recent_error_logs passes to filter_log_events
RecentPattern ==
    /\ pc = "unit"
    /\ Returns("get_recent_error_logs", RecentSearchPattern(unit.args.filter_pattern))

UnitNext ==
    \/ ExtractDatapointTimestamp
    \/ InferLogGroupName
    \/ InlineFallback
    \/ InferFilterPattern
    \/ GetFilterPattern
    \/ BodyExtra
    \/ WindowPattern
    \/ RecentPattern

UnitSpec == UnitInit /\ [][UnitNext]_vars

-----------------------------------------------------------------------------
(* Vocabulary of the properties *)

ConfigMissing == env = None \/ env = ""

\* the indices under which the events of the invocation are processed
EventIndices == IF event.kind = "wrapped" THEN 1..Len(event.Records) ELSE {0}

MessageOf(j) == IF j = 0 THEN event.data ELSE event.Records[j].Message

\* record j is not an SNS record: the loop passes over it
Skipped(j) == j >= 1 /\ event.Records[j].EventSource # "aws:sns"

\* event j carries an alarm payload in one of the two accepted shapes
IsAlarmPayload(j) ==
    /\ j = 0 \/ (event.Records[j].EventSource = "aws:sns" /\ event.Records[j].parses)
    /\ MessageOf(j).shape \in {"AlarmName", "alarmData"}

\* event j cannot be unwrapped or has no known shape
Malformed(j) == ~Skipped(j) /\ ~IsAlarmPayload(j)

NewStateOf(j) ==
    IF MessageOf(j).NewStateValue = None THEN "UNKNOWN" ELSE MessageOf(j).NewStateValue

AlarmNameOf(j) == MessageOf(j).AlarmName

ReasonOf(j) ==
    IF MessageOf(j).NewStateReason = None THEN "" ELSE MessageOf(j).NewStateReason

InAlarm(j) == IsAlarmPayload(j) /\ NewStateOf(j) = "ALARM"

LookupOps == {"describe_alarms", "describe_log_groups", "describe_metric_filters",
              "get_caller_identity"}

\* positions in calls of the calls of the given kinds made for event j
CallsFor(j, ops) == {k \in 1..Len(calls) : calls[k].idx = j /\ calls[k].op \in ops}

Queries(j) == CallsFor(j, {"filter_log_events"})

Publishes(j) == CallsFor(j, {"publish"})

PublishRaisedFor(j) == \E k \in Publishes(j) : calls[k].raised

QueryRaisedFor(j) == \E k \in Queries(j) : calls[k].raised

\* event j has been left behind: a later record is being processed, or the
\* invocation is past its last event
Finished(j) == i > j \/ (i = j /\ pc \in {"return", "done"})

\* the log group the naming convention gives for each alarm name of the model
NameDerivedGroup(alarm_name) ==
    CASE alarm_name = "LS-AWSLAB-EC2-MTA01-Messages-Error-Alarm" -> "LS-AWSLAB-EC2-MTA01-Messages"
      [] alarm_name = "LG-Error-Alarm" -> "LG"
      [] alarm_name = "-Alarm" -> ""

\* the pattern queried with the default filter of each of those log groups
NameDerivedPattern(alarm_name) ==
    CASE alarm_name = "LS-AWSLAB-EC2-MTA01-Messages-Error-Alarm" -> "error"
      [] alarm_name = "LG-Error-Alarm" -> "ERROR"
      [] alarm_name = "-Alarm" -> "ERROR"

-----------------------------------------------------------------------------
(* Properties *)

\* C1: an alarm event whose new state is not exactly ALARM causes no metadata
\* lookup, no log query and no publish call (every call made belongs to an
\* event in state ALARM), and an invocation whose events are all such events
\* returns status 200 without having called any service.
C1_NonAlarmIsNoOp ==
    /\ \A k \in 1..Len(calls) : InAlarm(calls[k].idx)
    /\ ( /\ pc = "done"
         /\ ~ConfigMissing
         /\ \A j \in EventIndices : IsAlarmPayload(j) /\ ~InAlarm(j) )
       => (result.statusCode = 200 /\ calls = <<>>)

C1_Witness ==
    /\ pc = "done"
    /\ event.kind = "direct"
    /\ event.data.shape = "AlarmName"
    /\ event.data.NewStateValue = "alarm"
    /\ result.statusCode = 200
    /\ calls = <<>>

\* C2, as stated: when the resolution of the log source fails for an ALARM
\* event, no log query and no publish call is made for it and the invocation
\* returns status 500.
C2_ResolutionFailureAborts ==
    \A j \in resolveFailed :
        /\ Queries(j) = {}
        /\ Publishes(j) = {}
        /\ pc = "done" => result.statusCode = 500

\* C2, amended: when the resolution of the log source fails for an ALARM
\* event, processing goes on with the log group inferred from the alarm name
\* and its default filter: one log query on that group and one publish call
\* are made for the event, and the invocation returns 500 only if something
\* else fails.
C2_ResolutionFailureFallsBack ==
    \A j \in resolveFailed :
        /\ \A k \in Queries(j) :
              /\ calls[k].args.logGroupName = NameDerivedGroup(AlarmNameOf(j))
              /\ calls[k].args.filterPattern = NameDerivedPattern(AlarmNameOf(j))
        /\ Finished(j) => Cardinality(Queries(j)) = 1 /\ Cardinality(Publishes(j)) = 1
        /\ (pc = "done" /\ ~PublishRaisedFor(i) /\ ~Malformed(i)) => result.statusCode = 200

C2_Witness ==
    /\ pc = "done"
    /\ result.statusCode = 200
    /\ event.kind = "direct"
    /\ 0 \in resolveFailed
    /\ AlarmNameOf(0) = "LS-AWSLAB-EC2-MTA01-Messages-Error-Alarm"
    /\ Queries(0) # {}
    /\ Publishes(0) # {}

\* C3: when the log query raises, in the window fetch or in the recent-logs
\* fetch, the fetcher returns the empty list, the body carries the 'retrieval
\* failed' placeholder, the publish call is still made, and the invocation
\* returns 200 when that publish succeeds.
C3_QueryFailureDegrades ==
    \A j \in EventIndices :
        QueryRaisedFor(j) =>
            /\ (i = j /\ pc = "format") => frame.error_logs = <<>>
            /\ (i = j /\ pc = "send") => frame.body[2].kind = "failed"
            /\ \A p \in Publishes(j) : calls[p].args.logs = "failed"
            /\ Finished(j) => Publishes(j) # {}
            /\ (pc = "done" /\ ~PublishRaisedFor(i) /\ ~Malformed(i)) => result.statusCode = 200

C3_Witness ==
    /\ pc = "done"
    /\ result.statusCode = 200
    /\ QueryRaisedFor(0)
    /\ \E p \in Publishes(0) : calls[p].args.logs = "failed" /\ ~calls[p].raised

\* C4: a publish call that fails makes the invocation return status 500, and
\* publish is attempted at most once for an event.
C4_PublishFailureFails ==
    /\ \A j \in EventIndices : Cardinality(Publishes(j)) <= 1
    /\ \A k \in 1..Len(calls) :
          (calls[k].op = "publish" /\ calls[k].raised)
             => (k = Len(calls) /\ pc = "done" /\ result.statusCode = 500)

C4_Witness ==
    /\ pc = "done"
    /\ result.statusCode = 500
    /\ calls # <<>>
    /\ calls[Len(calls)].op = "publish"
    /\ calls[Len(calls)].raised

\* C5: when EMAIL_SNS_TOPIC_ARN is missing or empty the invocation returns
\* status 500 at once: no record is unwrapped, no event is processed and no
\* service is called, whatever the envelope holds.
C5_MissingConfigAborts ==
    (ConfigMissing /\ pc # "start") =>
        /\ pc = "done"
        /\ result.statusCode = 500
        /\ calls = <<>>
        /\ i = 0
        /\ alarm_data = UnknownMessage
        /\ frame = NoFrame

C5_Witness ==
    /\ pc = "done"
    /\ env = ""
    /\ event.kind = "wrapped"
    /\ Len(event.Records) = 2
    /\ InAlarm(1)
    /\ result.statusCode = 500
    /\ calls = <<>>

\* C6: an invocation ends by returning a result with status 200 or 500 and a
\* message, whatever was raised on the way; the status is 500 exactly when
\* the configuration is missing or the processing of some event raised (an
\* event that cannot be unwrapped or has no known shape, or a publish call
\* that failed).
C6_StatusReflectsFailure ==
    /\ pc # "done" => (result = NoResult /\ escaped = "none")
    /\ pc = "done" =>
          /\ result.statusCode \in {200, 500}
          /\ result.message # None
          /\ result.statusCode = 500 <=>
                \/ ConfigMissing
                \/ \E j \in EventIndices : Malformed(j) \/ PublishRaisedFor(j)

C6_Witness ==
    /\ pc = "done"
    /\ result.statusCode = 500
    /\ ~ConfigMissing
    /\ event.kind = "wrapped"
    /\ i = 2
    /\ Malformed(2)
    /\ ~Malformed(1)

\* C7: the records of a wrapped envelope are processed in array order, and
\* the first record whose processing raises ends the batch: calls are made in
\* record order and never for a record after the current one, a record is
\* only reached after every earlier one went through without raising, the
\* failure gives status 500, and the notification of every earlier ALARM
\* record has been published.
C7_BatchAbortsAtFirstFailure ==
    event.kind = "wrapped" =>
        /\ \A k \in 1..(Len(calls) - 1) : calls[k].idx <= calls[k + 1].idx
        /\ \A k \in 1..Len(calls) : calls[k].idx <= i
        /\ \A j \in 1..(i - 1) : ~Malformed(j) /\ ~PublishRaisedFor(j)
        /\ (pc = "done" /\ i >= 1 /\ (Malformed(i) \/ PublishRaisedFor(i)))
              => result.statusCode = 500
        /\ \A j \in 1..(i - 1) :
              InAlarm(j) => \E p \in Publishes(j) : ~calls[p].raised

C7_Witness ==
    /\ pc = "done"
    /\ result.statusCode = 500
    /\ event.kind = "wrapped"
    /\ Len(event.Records) = 2
    /\ i = 1
    /\ PublishRaisedFor(1)
    /\ InAlarm(2)
    /\ CallsFor(2, LookupOps \cup {"filter_log_events", "publish"}) = {}

\* C8: an ALARM event that reaches the fetch step issues exactly one log
\* query, before its one publish call.  With the timestamp
\* 2025-08-04T05:16:00Z taken from the reason text the query runs from that
\* instant to 300 seconds later; with no timestamp in the reason text it runs
\* from one hour before 'now' to 'now'.  The pattern is the filter expression
\* with "[error]" turned into "error".
C8_OneQueryBeforePublish ==
    \A j \in EventIndices :
        /\ Cardinality(Queries(j)) <= 1
        /\ Publishes(j) # {} => Queries(j) # {}
        /\ (i = j /\ pc \in {"format", "send"}) => Queries(j) # {}
        /\ \A q \in Queries(j) :
              /\ \A p \in Publishes(j) : q < p
              /\ IF ReasonOf(j) = StampedReason
                 THEN /\ calls[q].args.startTime = [days |-> 20304, ms |-> 18960000]
                      /\ calls[q].args.endTime = [days |-> 20304, ms |-> 19260000]
                 ELSE /\ calls[q].args.endTime \in Nows
                      /\ calls[q].args.startTime = [days |-> 20304, ms |-> 15660123]
              /\ calls[q].args.filterPattern # "[error]"
              /\ (i = j /\ pc = "format" /\ frame.filter_pattern # "[error]")
                    => calls[q].args.filterPattern = frame.filter_pattern
              /\ (i = j /\ pc = "format" /\ frame.filter_pattern = "[error]")
                    => calls[q].args.filterPattern = "error"

C8_Witness ==
    /\ pc = "done"
    /\ result.statusCode = 200
    /\ event.kind = "direct"
    /\ ReasonOf(0) = StampedReason
    /\ \E q \in Queries(0), p \in Publishes(0) :
          /\ q < p
          /\ calls[q].args.startTime = [days |-> 20304, ms |-> 18960000]
          /\ calls[q].args.endTime = [days |-> 20304, ms |-> 19260000]

\* the metric filter the metadata service holds for the trigger NS / M
TriggerFilter == [logGroupName |-> "LG", filterPattern |-> "ERROR"]

SortedDescending(events) ==
    \A k \in 1..(Len(events) - 1) : events[k].timestamp >= events[k + 1].timestamp

\* C10: whatever the backend returns, the list a fetch hands on has at most
\* 10 entries and is sorted by timestamp, newest first, in the window fetch
\* and in the recent-logs fetch.
C10_FetchCappedAndSorted ==
    pc \in {"format", "send"} =>
        /\ Len(frame.error_logs) <= 10
        /\ SortedDescending(frame.error_logs)

-----------------------------------------------------------------------------
(* Properties of the helper functions *)

\* an application of extract_datapoint_timestamp_from_reason has returned
Extraction == unit.fn = "extract_datapoint_timestamp_from_reason" /\ unit.returned

\* the century of each two-digit year of YearFields
Century(yy) == IF yy \in {"00", "24", "25", "50"} THEN "20" ELSE "19"

\* the instant a group stands for: day first, month second, year last
InstantOf(g) ==
    Century(g.yy) \o g.yy \o "-" \o g.mm \o "-" \o g.dd \o "T" \o g.time \o ".000Z"

\* C11: when the first parenthesized group (DD/MM/YY HH:MM:SS) of the reason
\* text is a calendar date and a time of day, extraction returns
\* YYYY-MM-DDTHH:MM:SS.000Z with the day from the first field, the month from
\* the second, and the year 20YY for YY <= 50 and 19YY otherwise.
C11_CenturyRule ==
    (Extraction /\ unit.args.groups # <<>> /\ unit.args.groups[1].valid)
        => unit.value = InstantOf(unit.args.groups[1])

\* a reason whose year field is 50 has been read as the year 2050
C11_Witness ==
    /\ Extraction
    /\ unit.args.groups # <<>>
    /\ unit.args.groups[1].valid
    /\ unit.args.groups[1].yy = "50"
    /\ unit.value = "2050-08-04T05:16:00.000Z"

\* C12: extraction returns None when the reason text is empty, has no
\* parenthesized timestamp group, or has a first group that is not a calendar
\* date and time of day, whatever the later groups are.
C12_InvalidIsAbsent ==
    (Extraction /\ (unit.args.groups = <<>> \/ ~unit.args.groups[1].valid))
        => unit.value = None

\* month 13 in the first group, a valid second group: nothing is extracted
C12_Witness ==
    /\ Extraction
    /\ Len(unit.args.groups) = 2
    /\ unit.args.groups[1].mm = "13"
    /\ unit.args.groups[2].valid
    /\ unit.value = None

\* an application of the naming rule, by the resolver's helper or by the code
\* written inline in process_alarm_event, has returned
NameInference ==
    /\ unit.fn \in {"infer_log_group_name_from_alarm_name", "inline_fallback"}
    /\ unit.returned

\* what is left of each severity part of SeverityParts once one trailing
\* severity, in any letter case, is removed
SeverityRest(sv) ==
    IF sv \in {"-Error", "-error", "-ERROR", "-Warning", "-Critical", "-Info",
               "-Debug", "-Alert", "-aLeRt"}
    THEN ""
    ELSE IF sv = "-Info-Error" THEN "-Info" ELSE sv

\* C13 as stated: a trailing "-Alarm" in any letter case is removed, then one
\* trailing severity in any letter case; by the helper and by the inline code.
C13_SuffixesInAnyCase ==
    NameInference =>
        unit.value = IF unit.args.alarm \in {"", "-Alarm", "-alarm", "-ALARM"}
                     THEN unit.args.stem \o SeverityRest(unit.args.severity)
                     ELSE unit.args.alarm_name

\* C13, amended: a trailing "-Alarm" written exactly so is removed, then one
\* trailing severity suffix in any letter case; a name ending in neither is
\* returned verbatim, and so is a name ending in "-alarm" or "-ALARM"; the
\* helper and the inline code of process_alarm_event return the same name.
C13_NamingInference ==
    NameInference =>
        unit.value = IF unit.args.alarm \in {"", "-Alarm"}
                     THEN unit.args.stem \o SeverityRest(unit.args.severity)
                     ELSE unit.args.alarm_name

\* the inline code has left a name ending in "-alarm" as it was
C13_Witness ==
    /\ unit.fn = "inline_fallback"
    /\ unit.returned
    /\ unit.args.alarm_name = "Foo-Error-alarm"
    /\ unit.value = "Foo-Error-alarm"

\* one of the two fetchers has computed the pattern of its log query
PatternSearch ==
    /\ unit.fn \in {"get_logs_from_datapoint_period", "get_recent_error_logs"}
    /\ unit.returned

RECURSIVE TrimLeft(_)
TrimLeft(s) == IF s # "" /\ Head(s) = " " THEN TrimLeft(Tail(s)) ELSE s

RECURSIVE TrimRight(_)
TrimRight(s) ==
    IF s # "" /\ CharAt(s, Len(s)) = " " THEN TrimRight(DropLast(s, 1)) ELSE s

Trimmed(s) == TrimLeft(TrimRight(s))

\* one layer of matching surrounding quotes removed
Unquoted(s) ==
    IF Len(s) >= 2 /\ CharAt(s, 1) = CharAt(s, Len(s)) /\ CharAt(s, 1) \in {"\"", "'"}
    THEN SubSeq(s, 2, Len(s) - 1)
    ELSE s

\* the normalization the claim describes
Normalized(s) ==
    LET t == Trimmed(Unquoted(Trimmed(s)))
    IN  IF StrLower(t) = "[error]" THEN "error" ELSE t

\* C14 as stated: the pattern of the log query is the filter expression with
\* one layer of matching quotes stripped, whitespace trimmed and [error] in
\* any letter case turned into error.
C14_PatternNormalized ==
    PatternSearch => unit.value = Normalized(unit.args.filter_pattern)

\* C14, amended: the pattern of the log query is the filter expression as it
\* is, quotes, whitespace and letter case included, except that the filter
\* that is exactly [error] is queried as error; in both fetchers.
C14_PatternPassedOn ==
    PatternSearch =>
        unit.value = IF unit.args.filter_pattern = "[error]"
                     THEN "error"
                     ELSE unit.args.filter_pattern

\* the filter "[error]", with its quotes, is queried with its quotes
C14_Witness ==
    /\ unit.fn = "get_logs_from_datapoint_period"
    /\ unit.returned
    /\ unit.args.filter_pattern = "\"[error]\""
    /\ unit.value = "\"[error]\""

\* C15: in every processed ALARM event the filter expression of the resolved
\* source binding is a non-empty string, whatever the metadata service
\* answers.
C15_FilterNeverEmpty ==
    (pc \in {"fetch", "format", "send"}) => frame.filter_pattern # ""

\* an application of infer_filter_pattern_from_log_group_name has returned
DefaultFilter == unit.fn = "infer_filter_pattern_from_log_group_name" /\ unit.returned

\* the suffixes of GroupSuffixes that are "-messages" in some letter case
MessagesSuffixes == {"-messages", "-Messages", "-MESSAGES"}

\* the stems of GroupStems in which "log-messages" occurs in some letter case
LegacyMessagesStems == {"LS-AWSLAB-EC2-MTA01-Log-messages-old", "LOG-MESSAGES-2024"}

\* C16 as stated: the default filter depends on the suffix only: [error] for
\* a name ending in -messages in any letter case, ERROR for every other name.
C16_DefaultBySuffixOnly ==
    DefaultFilter =>
        unit.value = IF unit.args.suffix \in MessagesSuffixes THEN "[error]" ELSE "ERROR"

\* C16, amended: the default filter is [error] for a name ending in -messages
\* and ERROR for a name ending in -app, in any letter case; a name ending in
\* neither gives [error] when "log-messages" occurs anywhere in it, in any
\* letter case, and ERROR otherwise.
C16_DefaultFilter ==
    DefaultFilter =>
        unit.value = IF unit.args.suffix \in MessagesSuffixes THEN "[error]"
                     ELSE IF unit.args.suffix \in {"-app", "-App", "-APP"} THEN "ERROR"
                     ELSE IF unit.args.stem \in LegacyMessagesStems THEN "[error]"
                     ELSE "ERROR"

\* a name that has "Log-messages" inside and ends in neither suffix
C16_Witness ==
    /\ DefaultFilter
    /\ unit.args.log_group_name = "LS-AWSLAB-EC2-MTA01-Log-messages-old"
    /\ unit.value = "[error]"

\* the log block of the report body has been built for a fetched list
Listing == unit.fn = "body_extra" /\ unit.returned

\* C17: for a fetched list of n entries the body lists min(n, 5) entries in
\* list order, each message cut to its first 300 characters plus "..." when
\* it is longer than 300; the note of omitted entries is there, with the
\* count n - 5, exactly when n > 5; the 'retrieval failed' text is there
\* exactly when n = 0.
C17_ListedEntries ==
    Listing =>
        LET logs == unit.args.error_logs
            n == Len(logs)
            block == unit.value
        IN  /\ block.kind = "failed" <=> n = 0
            /\ block.kind \in {"failed", "listed"}
            /\ Len(block.entries) = (IF n <= 5 THEN n ELSE 5)
            /\ \A k \in 1..Len(block.entries) :
                  /\ block.entries[k].timestamp = logs[k].timestamp
                  /\ block.entries[k].message =
                        IF Len(logs[k].message) > 300
                        THEN SubSeq(logs[k].message, 1, 300) \o "..."
                        ELSE logs[k].message
            /\ block.omitted > 0 <=> n > 5
            /\ n > 5 => block.omitted = n - 5
            /\ block.kind = "listed" => block.count = n

\* eleven entries with long messages: five listed, cut to 303 characters, six
\* omitted
C17_Witness ==
    /\ Listing
    /\ Len(unit.args.error_logs) = 11
    /\ Len(unit.args.error_logs[1].message) = 330
    /\ Len(unit.value.entries) = 5
    /\ Len(unit.value.entries[1].message) = 303
    /\ unit.value.omitted = 6

\* the sections of the report body, in their order
BodySections ==
    <<"summary", "logs", "link", "details", "threshold", "monitored", "actions", "caution">>

\* the report of the running event has been formatted and is about to be sent
Formatted == pc = "send"

\* the alarm-metadata query of the formatter raised or found no alarm
NoAlarmDetails == frame.resp.raised \/ frame.resp.MetricAlarms = <<>>

\* C18: a failure of the alarm-metadata query or of the account-id lookup
\* inside the formatter does not abort the event: there is a subject and a
\* body, the body has all its sections in the fixed order, the blocks without
\* data carry their fixed placeholder text, and the publish call is made for
\* every event whose report was formatted.
C18_EnrichmentFailureTolerated ==
    /\ Formatted =>
          /\ frame.subject = EmailSubject(frame.alarm_name)
          /\ Len(frame.body) = Len(BodySections)
          /\ \A k \in 1..Len(BodySections) : frame.body[k].sec = BodySections[k]
          /\ frame.body[4].account = frame.account_id
          /\ frame.body[5].text \in {"sentence", "generic"}
          /\ frame.body[6].text \in {"from alarm", "(not available)"}
          /\ frame.body[7].text \in {"from alarm", "None"}
          /\ NoAlarmDetails =>
                /\ frame.body[5].text = "generic"
                /\ frame.body[6].text = "(not available)"
                /\ frame.body[7].text = "None"
    /\ \A j \in EventIndices :
          (CallsFor(j, {"get_caller_identity"}) # {} /\ Finished(j)) => Publishes(j) # {}
    /\ \A k \in 1..Len(calls) :
          calls[k].op = "get_caller_identity" =>
              \/ k + 2 <= Len(calls) /\ calls[k + 2].op = "publish"
                                     /\ calls[k + 2].idx = calls[k].idx
              \/ k + 1 = Len(calls) /\ Formatted /\ i = calls[k].idx

\* both enrichment calls raised: the report is complete, with placeholders
C18_Witness ==
    /\ Formatted
    /\ frame.resp.raised
    /\ frame.account_id = "unknown"
    /\ Len(frame.body) = 8
    /\ frame.body[5].text = "generic"
    /\ frame.body[6].text = "(not available)"
    /\ frame.body[7].text = "None"

\* an application of get_filter_pattern_from_log_group has returned
Selection == unit.fn = "get_filter_pattern_from_log_group" /\ unit.returned

\* the expression of a returned filter ('' when it has no filterPattern)
ExpressionOf(filter_info) ==
    IF filter_info.filterPattern = None THEN "" ELSE filter_info.filterPattern

\* filter_info has a metric transformation for the metric
Transforms(filter_info, metric_name) ==
    \E t \in DOMAIN filter_info.metricTransformations :
        filter_info.metricTransformations[t] = metric_name

\* the default expression of the two log groups of SelectionArgs
DefaultExpression(log_group_name) ==
    IF log_group_name = "LS-AWSLAB-EC2-MTA01-Messages" THEN "[error]" ELSE "ERROR"

\* C19: the filter expression chosen is that of the first returned filter
\* with a metric transformation for the alarm's metric; if no filter has one,
\* that of the first returned filter; if no filter is returned or the lookup
\* raises, the default expression of the log group.
C19_FirstMatchSelected ==
    Selection =>
        LET resp == unit.args.resp
            filters == resp.metricFilters
            metric == unit.args.metric_name
        IN  IF resp.raised \/ filters = <<>>
            THEN unit.value = DefaultExpression(unit.args.log_group_name)
            ELSE IF \E k \in DOMAIN filters : Transforms(filters[k], metric)
            THEN \E k \in DOMAIN filters :
                    /\ Transforms(filters[k], metric)
                    /\ \A h \in 1..(k - 1) : ~Transforms(filters[h], metric)
                    /\ unit.value = ExpressionOf(filters[k])
            ELSE unit.value = ExpressionOf(filters[1])

\* two filters for the metric with different expressions, the second a match
\* too: the first is chosen
C19_Witness ==
    /\ Selection
    /\ Len(unit.args.resp.metricFilters) = 2
    /\ Transforms(unit.args.resp.metricFilters[1], unit.args.metric_name)
    /\ Transforms(unit.args.resp.metricFilters[2], unit.args.metric_name)
    /\ unit.args.resp.metricFilters[1].filterPattern = "[error]"
    /\ unit.args.resp.metricFilters[2].filterPattern = "ERROR"
    /\ unit.value = "[error]"

====
